---- MODULE Spec2Model ----
(***************************************************************************)
(* Model of ggca's correlation module (src/src/correlation.rs):            *)
(*   - the three correlation strategies (Pearson, Spearman, Kendall) and   *)
(*     their construction through get_correlation_method;                  *)
(*   - the CorResult record, its constructor, field setters and pickle     *)
(*     support (__getstate__ / __setstate__);                              *)
(*   - the Sortable encoding of CorResult (bincode encode / decode).       *)
(*                                                                         *)
(* Floating point is modelled by exact extended reals: a value is NaN, an  *)
(* infinity, or a signed (square root of a) rational.  Rounding is not     *)
(* modelled; NaN and the infinities follow IEEE-754.                       *)
(***************************************************************************)
EXTENDS Integers, Sequences, FiniteSets, TLC

VARIABLES
    overflow_checks,  \* build profile: TRUE = arithmetic overflow panics, FALSE = wraps
    strategy,         \* the Box<dyn Correlation> built by get_correlation_method
    x, y,             \* the sample vectors handed to correlate
    out,              \* what correlate returned
    res,              \* a CorResult (self)
    other,            \* a second CorResult, the target of __setstate__
    pickled,          \* the tuple of byte strings returned by __getstate__
    lastOp,           \* the last CorResult operation and the values it was given
    writer,           \* bytes written by encode
    sent,             \* the values encoded so far, in order
    reader,           \* bytes not yet consumed by decode (or "closed")
    received          \* what the successive decode calls returned

vars == <<overflow_checks, strategy, x, y, out, res, other, pickled, lastOp,
          writer, sent, reader, received>>

corVars == <<overflow_checks, strategy, x, y, out>>
resVars == <<res, other, pickled, lastOp>>
codecVars == <<writer, sent, reader, received>>

-----------------------------------------------------------------------------
(* Bounds of the model *)

MaxN == 3         \* sample counts 0..MaxN
MaxSample == 1    \* samples are the integers 0..MaxSample
ScenarioN == 5    \* sample count of the Pearson scenario
MaxStrLen == 1    \* longest gene / gem / cpg_site_id string
MaxStream == 2    \* most values encoded into one writer

-----------------------------------------------------------------------------
(* f64 as an exact extended real.                                          *)
(* k = "nan" | "inf" | "huge" | "fin"; s is the sign (-1, 0, 1);           *)
(* a "fin" value is s*num/den when rt = FALSE and s*sqrt(num/den) when     *)
(* rt = TRUE.  "huge" is the positive finite value (2^64 - 2 + n) as f64,  *)
(* the wrapped n - 2 of a release build.                                   *)

RECURSIVE GCD(_, _)
GCD(a, b) == IF b = 0 THEN a ELSE GCD(b, a % b)

NaN == [k |-> "nan", s |-> 0, num |-> 0, den |-> 1, rt |-> FALSE]
Inf(s) == [k |-> "inf", s |-> s, num |-> 0, den |-> 1, rt |-> FALSE]
Huge(s) == [k |-> "huge", s |-> s, num |-> 0, den |-> 1, rt |-> FALSE]
Zero == [k |-> "fin", s |-> 0, num |-> 0, den |-> 1, rt |-> FALSE]

\* canonical form of s*num/den (or its root): lowest terms, one zero
Norm(s, num, den, rt) ==
    IF num = 0 \/ s = 0 THEN Zero
    ELSE LET g == GCD(num, den)
         IN [k |-> "fin", s |-> s, num |-> num \div g, den |-> den \div g, rt |-> rt]

Sign(i) == IF i > 0 THEN 1 ELSE IF i < 0 THEN -1 ELSE 0
AbsInt(i) == IF i < 0 THEN -i ELSE i

\* the f64 of the rational a/b, b > 0
Rat(a, b) == Norm(Sign(a), AbsInt(a), b, FALSE)

\* a finite value in root form: s*sqrt(num/den)
AsRoot(v) == IF v.rt THEN v
             ELSE [v EXCEPT !.num = v.num * v.num, !.den = v.den * v.den, !.rt = TRUE]

IsZero(v) == v.k = "fin" /\ v.s = 0

FNeg(v) == IF v.k = "nan" THEN NaN ELSE [v EXCEPT !.s = -v.s]
FAbs(v) == IF v.k = "nan" THEN NaN ELSE [v EXCEPT !.s = AbsInt(v.s)]

\* f64::sqrt
FSqrt(v) ==
    CASE v.k = "nan" -> NaN
      [] v.k = "inf" -> IF v.s > 0 THEN Inf(1) ELSE NaN
      [] v.k = "huge" -> IF v.s > 0 THEN Huge(1) ELSE NaN
      [] OTHER -> IF v.s < 0 THEN NaN
                  ELSE IF v.s = 0 THEN Zero
                  ELSE [v EXCEPT !.rt = TRUE]

\* f64::powi(2)
FPowi2(v) ==
    CASE v.k = "nan" -> NaN
      [] v.k = "inf" -> Inf(1)
      [] v.k = "huge" -> Huge(1)
      [] OTHER -> IF v.s = 0 THEN Zero
                  ELSE IF v.rt THEN Norm(1, v.num, v.den, FALSE)
                  ELSE Norm(1, v.num * v.num, v.den * v.den, FALSE)

\* 1.0 - v, for v a rational
FOneMinus(v) ==
    CASE v.k = "nan" -> NaN
      [] v.k \in {"inf", "huge"} -> [v EXCEPT !.s = -v.s]
      [] OTHER -> Rat(v.den - v.s * v.num, v.den)

\* a * b
FMul(a, b) ==
    CASE a.k = "nan" \/ b.k = "nan" -> NaN
      [] a.k = "inf" \/ b.k = "inf" ->
            IF IsZero(a) \/ IsZero(b) THEN NaN ELSE Inf(a.s * b.s)
      [] IsZero(a) \/ IsZero(b) -> Zero
      [] a.k = "huge" \/ b.k = "huge" -> Huge(a.s * b.s)
      [] OTHER ->
            IF ~a.rt /\ ~b.rt
            THEN Norm(a.s * b.s, a.num * b.num, a.den * b.den, FALSE)
            ELSE Norm(a.s * b.s, AsRoot(a).num * AsRoot(b).num,
                      AsRoot(a).den * AsRoot(b).den, TRUE)

\* a / b (a zero divisor is +0.0: it is always the result of a sqrt here)
FDiv(a, b) ==
    CASE a.k = "nan" \/ b.k = "nan" -> NaN
      [] a.k = "inf" -> IF b.k = "inf" THEN NaN
                        ELSE Inf(a.s * (IF b.s = 0 THEN 1 ELSE b.s))
      [] b.k = "inf" -> Zero
      [] IsZero(b) -> IF IsZero(a) THEN NaN ELSE Inf(a.s)
      [] IsZero(a) -> Zero
      [] a.k = "huge" -> Huge(a.s * b.s)
      [] b.k = "huge" -> Zero
      [] OTHER ->
            IF ~a.rt /\ ~b.rt
            THEN Norm(a.s * b.s, a.num * b.den, a.den * b.num, FALSE)
            ELSE Norm(a.s * b.s, AsRoot(a).num * AsRoot(b).den,
                      AsRoot(a).den * AsRoot(b).num, TRUE)

\* a < b on non-NaN values
FLess(a, b) ==
    LET rank(v) == CASE v.k = "inf" -> 3 * v.s
                     [] v.k = "huge" -> 2 * v.s
                     [] OTHER -> v.s
    IN IF rank(a) # rank(b) THEN rank(a) < rank(b)
       ELSE IF a.k # "fin" \/ a.s = 0 THEN FALSE
       ELSE LET l == AsRoot(a).num * AsRoot(b).den
                r == AsRoot(b).num * AsRoot(a).den
            IN IF a.s > 0 THEN l < r ELSE r < l

\* -1 <= v <= 1
InMinusOneOne(v) ==
    /\ v.k = "fin"
    /\ AsRoot(v).num <= AsRoot(v).den

IsOne(v) == v.k = "fin" /\ v.s = 1 /\ v.num = v.den

-----------------------------------------------------------------------------
(* Probabilities returned by the distribution functions.                   *)
(* [k = "cdf", dist, df, q, scale] is scale * F(q), F the cumulative       *)
(* distribution function of dist (Student t with df degrees of freedom, or *)
(* the standard normal): F is strictly increasing, F(-inf) = 0,            *)
(* F(0) = 1/2, F(inf) = 1 and F(-q) = 1 - F(q).                            *)

PNaN == [k |-> "nan", dist |-> "none", df |-> Zero, q |-> NaN, scale |-> 1]
Cdf(dist, df, q) == [k |-> "cdf", dist |-> dist, df |-> df, q |-> q, scale |-> 1]

\* rgsl tdist_P(t, df) = P(T <= t)
TDistP(t, df) ==
    IF t.k = "nan" \/ df.k = "nan" \/ df.s <= 0 THEN PNaN ELSE Cdf("t", df, t)

\* rgsl tdist_Q(t, df) = P(T >= t)
TDistQ(t, df) ==
    IF t.k = "nan" \/ df.k = "nan" \/ df.s <= 0 THEN PNaN ELSE Cdf("t", df, FNeg(t))

\* rgsl gaussian_P(z, sigma) = P(Z <= z)
GaussianP(z, sigma) ==
    IF z.k = "nan" THEN PNaN ELSE Cdf("z", sigma, z)

\* f64::min: a NaN operand is ignored
PMin(a, b) ==
    CASE a.k = "nan" -> b
      [] b.k = "nan" -> a
      [] OTHER -> IF FLess(b.q, a.q) THEN b ELSE a

\* f64::max, used by the mutant of the two-sided p-value
PMax(a, b) ==
    CASE a.k = "nan" -> b
      [] b.k = "nan" -> a
      [] OTHER -> IF FLess(a.q, b.q) THEN b ELSE a

\* 2.0 * p
PTwice(p) == IF p.k = "nan" THEN PNaN ELSE [p EXCEPT !.scale = 2 * p.scale]

\* 0 <= p <= 1
PInUnit(p) ==
    /\ p.k = "cdf"
    /\ \/ p.scale = 1
       \/ p.scale = 2 /\ ~FLess(Zero, p.q)

PIsZero(p) == p.k = "cdf" /\ p.q = Inf(-1)

-----------------------------------------------------------------------------
(* Sample vectors *)

Sample == {Rat(i, 1) : i \in 0..MaxSample}

\* the integer held by a (non-NaN) sample
SampleInt(v) == v.s * v.num

Vectors(n, S) == [1..n -> S]

RECURSIVE SumOver(_, _, _)
\* sum of f[i] for i in lo..hi
SumOver(f, lo, hi) == IF lo > hi THEN 0 ELSE f[lo] + SumOver(f, lo + 1, hi)

\* the non-decreasing vectors of n samples from 1..n
ScenarioVectors(n) ==
    {v \in Vectors(n, {Rat(i, 1) : i \in 1..n}) :
        \A i \in 1..(n - 1) : SampleInt(v[i]) <= SampleInt(v[i + 1])}

\* the vector [1, 2, ..., n]
Ramp(n) == [i \in 1..n |-> Rat(i, 1)]

-----------------------------------------------------------------------------
(* Library statistics used by the strategies *)

\* rgsl statistics::correlation(x, 1, y, 1, n): the product-moment coefficient
\* sum_cross / (sqrt(sum_xsq) * sqrt(sum_ysq)), 0/0 = NaN for a vector without variance
Correlation(xs, ys, n) ==
    IF n = 0 THEN NaN
    ELSE LET xi == [i \in 1..n |-> SampleInt(xs[i])]
             yi == [i \in 1..n |-> SampleInt(ys[i])]
             sx == SumOver(xi, 1, n)
             sy == SumOver(yi, 1, n)
             sum_xsq == Rat(n * SumOver([i \in 1..n |-> xi[i] * xi[i]], 1, n) - sx * sx, n)
             sum_ysq == Rat(n * SumOver([i \in 1..n |-> yi[i] * yi[i]], 1, n) - sy * sy, n)
             sum_cross == Rat(n * SumOver([i \in 1..n |-> xi[i] * yi[i]], 1, n) - sx * sy, n)
         IN FDiv(sum_cross, FMul(FSqrt(sum_xsq), FSqrt(sum_ysq)))

\* twice the average rank of each sample (ties averaged)
Ranks(xs, n) ==
    [i \in 1..n |->
        Rat(2 * Cardinality({j \in 1..n : SampleInt(xs[j]) < SampleInt(xs[i])})
            + Cardinality({j \in 1..n : SampleInt(xs[j]) = SampleInt(xs[i])}) + 1, 1)]

\* rgsl statistics::spearman(x, 1, y, 1, n, work): the correlation of the ranks
SpearmanRs(xs, ys, n) == Correlation(Ranks(xs, n), Ranks(ys, n), n)

\* f64::partial_cmp
PartialCmp(a, b) ==
    IF a.k = "nan" \/ b.k = "nan" THEN "None"
    ELSE IF FLess(a, b) THEN "Less"
    ELSE IF FLess(b, a) THEN "Greater"
    ELSE "Equal"

\* the closure |a, b| a.partial_cmp(b).unwrap_or(Ordering::Greater)
Comparator(a, b) ==
    IF PartialCmp(a, b) = "None" THEN "Greater" ELSE PartialCmp(a, b)

\* kendalls::tau_b_with_comparator(x, y, cmp): Err for empty input, else
\* Ok((tau_b, z)) from the pairs the comparator orders the same way in x and y
\* (concordant), the opposite way (discordant) or ties
TauB(xs, ys, n) ==
    IF n = 0 THEN [ok |-> FALSE, tau |-> NaN, z |-> NaN]
    ELSE LET pairs == {p \in (1..n) \X (1..n) : p[1] < p[2]}
             cx(p) == Comparator(xs[p[1]], xs[p[2]])
             cy(p) == Comparator(ys[p[1]], ys[p[2]])
             conc == Cardinality({p \in pairs : cx(p) # "Equal" /\ cx(p) = cy(p)})
             disc == Cardinality({p \in pairs :
                                    cx(p) # "Equal" /\ cy(p) # "Equal" /\ cx(p) # cy(p)})
             untied_x == Cardinality({p \in pairs : cx(p) # "Equal"})
             untied_y == Cardinality({p \in pairs : cy(p) # "Equal"})
             tau == FDiv(Rat(conc - disc, 1), FSqrt(Rat(untied_x * untied_y, 1)))
             var_s == Rat(n * (n - 1) * (2 * n + 5), 18)
             z == IF tau.k = "nan" THEN NaN ELSE FDiv(Rat(conc - disc, 1), FSqrt(var_s))
         IN [ok |-> TRUE, tau |-> tau, z |-> z]

-----------------------------------------------------------------------------
(* The strategies *)

NoStrategy == [status |-> "none", method |-> "none", n |-> 0, df |-> Zero]
NoOut == [status |-> "none", stat |-> NaN, p |-> PNaN]
Panic == [status |-> "panic", stat |-> NaN, p |-> PNaN]
Ok(stat, p) == [status |-> "ok", stat |-> stat, p |-> p]

Methods == {"Pearson", "Spearman", "Kendall"}

\* mutant: the degrees of freedom taken as n - 1
DegreesOfFreedomOffByOne(n) ==
    IF n >= 1 THEN [panic |-> FALSE, v |-> Rat(n - 1, 1)]
    ELSE IF overflow_checks THEN [panic |-> TRUE, v |-> NaN]
    ELSE [panic |-> FALSE, v |-> Huge(1)]

\* (n - 2) as f64 on usize n: n < 2 overflows, which panics when overflow checks
\* are on and wraps to 2^64 - 2 + n when they are off
DegreesOfFreedom(n) ==
    IF n >= 2 THEN [panic |-> FALSE, v |-> Rat(n - 2, 1)]
    ELSE IF overflow_checks THEN [panic |-> TRUE, v |-> NaN]
    ELSE [panic |-> FALSE, v |-> Huge(1)]

PearsonNew(n) ==
    IF DegreesOfFreedom(n).panic
    THEN [status |-> "panic", method |-> "Pearson", n |-> n, df |-> NaN]
    ELSE [status |-> "built", method |-> "Pearson", n |-> n, df |-> DegreesOfFreedom(n).v]

SpearmanNew(n) ==
    IF DegreesOfFreedom(n).panic
    THEN [status |-> "panic", method |-> "Spearman", n |-> n, df |-> NaN]
    ELSE [status |-> "built", method |-> "Spearman", n |-> n, df |-> DegreesOfFreedom(n).v]

KendallNew(n) == [status |-> "built", method |-> "Kendall", n |-> n, df |-> Zero]

\* mutant: the larger tail is doubled
PearsonCorrelateMaxTail(self, xs, ys) ==
    LET r == Correlation(xs, ys, self.n)
        statistic == FDiv(FMul(FSqrt(self.df), r), FSqrt(FOneMinus(FPowi2(r))))
        p_value == PTwice(PMax(TDistP(statistic, self.df), TDistQ(statistic, self.df)))
    IN Ok(r, p_value)

PearsonCorrelate(self, xs, ys) ==
    LET r == Correlation(xs, ys, self.n)
        statistic == FDiv(FMul(FSqrt(self.df), r), FSqrt(FOneMinus(FPowi2(r))))
        p_value == PTwice(PMin(TDistP(statistic, self.df), TDistQ(statistic, self.df)))
    IN Ok(r, p_value)

\* (rs + 1.0) * (1.0 - rs) is 1 - rs^2; the workspace is the 2n-element
\* capacity of vec
SpearmanCorrelate(self, xs, ys) ==
    LET rs == SpearmanRs(xs, ys, self.n)
        t == FMul(rs, FSqrt(FDiv(self.df, FOneMinus(FPowi2(rs)))))
        ccdf == TDistQ(FAbs(t), self.df)
        p_value == PTwice(ccdf)
    IN Ok(rs, p_value)

HasNaN(xs) == \E i \in DOMAIN xs : xs[i].k = "nan"

\* the outcomes of Kendall::correlate: unwrap panics on Err; with values the
\* comparator does not order consistently the sort inside tau_b may panic or
\* leave the pairs in an unspecified order
KendallCorrelate(self, xs, ys) ==
    LET t == TauB(xs, ys, Len(xs))
        cdf == GaussianP(FNeg(FAbs(t.z)), Rat(1, 1))
        p_value == PTwice(cdf)
    IN IF ~t.ok THEN {Panic}
       ELSE IF HasNaN(xs) \/ HasNaN(ys) THEN {Panic, Ok(t.tau, p_value)}
       ELSE {Ok(t.tau, p_value)}

-----------------------------------------------------------------------------
(* Actions of the correlation strategies *)

SampleCounts == (0..MaxN) \cup {ScenarioN}

\* the vectors correlate is called with for a strategy of n samples
GeneVectors(n) == IF n = ScenarioN THEN {Ramp(n)} ELSE Vectors(n, Sample)
GemVectors(n) == IF n = ScenarioN THEN ScenarioVectors(n) ELSE Vectors(n, Sample)

\* NaN samples are given to Kendall only, whose comparator provides for them
KendallGeneVectors(n) ==
    IF n = ScenarioN THEN {Ramp(n)} ELSE Vectors(n, Sample \cup {NaN})

GetCorrelationMethod(m, n) ==
    /\ strategy.status = "none"
    /\ strategy' = CASE m = "Pearson" -> PearsonNew(n)
                     [] m = "Spearman" -> SpearmanNew(n)
                     [] m = "Kendall" -> KendallNew(n)
    /\ UNCHANGED <<overflow_checks, x, y, out>>

\* strategy.correlate(xs, ys) on a Pearson
CallPearson ==
    /\ strategy.status = "built" /\ strategy.method = "Pearson"
    /\ out.status = "none"
    /\ \E xs \in GeneVectors(strategy.n), ys \in GemVectors(strategy.n) :
          /\ x' = xs /\ y' = ys
          /\ out' = PearsonCorrelate(strategy, xs, ys)
    /\ UNCHANGED <<overflow_checks, strategy>>

\* strategy.correlate(xs, ys) on a Spearman
CallSpearman ==
    /\ strategy.status = "built" /\ strategy.method = "Spearman"
    /\ out.status = "none"
    /\ \E xs \in GeneVectors(strategy.n), ys \in GemVectors(strategy.n) :
          /\ x' = xs /\ y' = ys
          /\ out' = SpearmanCorrelate(strategy, xs, ys)
    /\ UNCHANGED <<overflow_checks, strategy>>

\* strategy.correlate(xs, ys) on a Kendall
CallKendall ==
    /\ strategy.status = "built" /\ strategy.method = "Kendall"
    /\ out.status = "none"
    /\ \E xs \in KendallGeneVectors(strategy.n), ys \in GemVectors(strategy.n) :
          /\ x' = xs /\ y' = ys
          /\ out' \in KendallCorrelate(strategy, xs, ys)
    /\ UNCHANGED <<overflow_checks, strategy>>

-----------------------------------------------------------------------------
(* CorResult values.                                                       *)
(* A String is its sequence of UTF-8 bytes; an f64 field is its 64 bits,   *)
(* most significant byte first; Option<T> is [some, v] with None the       *)
(* record [some |-> FALSE, v |-> <<>>].                                    *)

\* the letters of the strings: "a"
Letters == {97}

RECURSIVE StringsOfLen(_)
StringsOfLen(n) == IF n = 0 THEN {<<>>}
                   ELSE {Append(t, c) : t \in StringsOfLen(n - 1), c \in Letters}

Strings == UNION {StringsOfLen(n) : n \in 0..MaxStrLen}

F64One == <<63, 240, 0, 0, 0, 0, 0, 0>>
F64NaN == <<127, 248, 0, 0, 0, 0, 0, 0>>
F64s == {F64One, F64NaN}

None == [some |-> FALSE, v |-> <<>>]
Some(v) == [some |-> TRUE, v |-> v]

OptStrings == {None} \cup {Some(t) : t \in Strings}
OptF64s == {None} \cup {Some(f) : f \in F64s}
PlainOptF64s == {None, Some(F64One)}

NumericFields == {"correlation", "p_value", "adjusted_p_value"}

CorResults ==
    [gene : Strings, gem : Strings, cpg_site_id : OptStrings,
     correlation : OptF64s, p_value : OptF64s, adjusted_p_value : OptF64s]

\* the values without NaN
PlainResults ==
    [gene : Strings, gem : Strings, cpg_site_id : OptStrings,
     correlation : PlainOptF64s, p_value : PlainOptF64s, adjusted_p_value : PlainOptF64s]

\* the values of S whose strings coincide and whose numeric fields coincide
Reduced(S) ==
    {v \in S :
        /\ v.gem = v.gene
        /\ v.cpg_site_id \in {None, Some(v.gene)}
        /\ v.p_value = v.correlation
        /\ v.adjusted_p_value = v.correlation}

\* no object
NoResult == [gene |-> <<>>, gem |-> <<>>, cpg_site_id |-> None, correlation |-> None,
             p_value |-> None, adjusted_p_value |-> None, live |-> FALSE]

Live(v) == [gene |-> v.gene, gem |-> v.gem, cpg_site_id |-> v.cpg_site_id,
            correlation |-> v.correlation, p_value |-> v.p_value,
            adjusted_p_value |-> v.adjusted_p_value, live |-> TRUE]

\* the else branch of CorResult::new
Placeholder == [gene |-> <<>>, gem |-> <<>>, cpg_site_id |-> None, correlation |-> None,
                p_value |-> None, adjusted_p_value |-> None]

-----------------------------------------------------------------------------
(* bincode (fixed-width little-endian integers, u64 lengths, u8 option tags) *)

RECURSIVE U64LE(_, _)
\* the k low bytes of n, least significant first
U64LE(n, k) == IF k = 0 THEN <<>> ELSE <<n % 256>> \o U64LE(n \div 256, k - 1)

Reverse(bs) == [i \in 1..Len(bs) |-> bs[Len(bs) + 1 - i]]

Take(bs, n) == SubSeq(bs, 1, n)
Drop(bs, n) == SubSeq(bs, n + 1, Len(bs))

SerString(t) == U64LE(Len(t), 8) \o t
SerF64(f) == Reverse(f)
SerOptString(o) == IF o.some THEN <<1>> \o SerString(o.v) ELSE <<0>>
SerOptF64(o) == IF o.some THEN <<1>> \o SerF64(o.v) ELSE <<0>>

\* bincode::serialize(&CorResult): the fields in declaration order
Serialize(v) ==
    SerString(v.gene) \o SerString(v.gem) \o SerOptString(v.cpg_site_id)
    \o SerOptF64(v.correlation) \o SerOptF64(v.p_value) \o SerOptF64(v.adjusted_p_value)

\* a parse: the value read and the bytes left, or a failure
Fail == [ok |-> FALSE, v |-> <<>>, rest |-> <<>>]
Read(v, rest) == [ok |-> TRUE, v |-> v, rest |-> rest]

\* a u64 length; one that does not fit two bytes exceeds every buffer
DeU64(bs) ==
    IF Len(bs) < 8 THEN Fail
    ELSE IF \E i \in 3..8 : bs[i] # 0 THEN Read(256 * 256, Drop(bs, 8))
    ELSE Read(bs[1] + 256 * bs[2], Drop(bs, 8))

DeString(bs) ==
    LET n == DeU64(bs)
    IN IF ~n.ok \/ n.v > Len(n.rest) THEN Fail
       ELSE IF \E i \in 1..n.v : n.rest[i] >= 128 THEN Fail
       ELSE Read(Take(n.rest, n.v), Drop(n.rest, n.v))

DeF64(bs) ==
    IF Len(bs) < 8 THEN Fail ELSE Read(Reverse(Take(bs, 8)), Drop(bs, 8))

DeOptString(bs) ==
    IF Len(bs) < 1 THEN Fail
    ELSE IF bs[1] = 0 THEN Read(None, Drop(bs, 1))
    ELSE IF bs[1] = 1
         THEN LET t == DeString(Drop(bs, 1))
              IN IF t.ok THEN Read(Some(t.v), t.rest) ELSE Fail
    ELSE Fail

DeOptF64(bs) ==
    IF Len(bs) < 1 THEN Fail
    ELSE IF bs[1] = 0 THEN Read(None, Drop(bs, 1))
    ELSE IF bs[1] = 1
         THEN LET f == DeF64(Drop(bs, 1))
              IN IF f.ok THEN Read(Some(f.v), f.rest) ELSE Fail
    ELSE Fail

\* bincode::deserialize_from(reader) of a CorResult
Deserialize(bs) ==
    LET gene == DeString(bs)
        gem == IF gene.ok THEN DeString(gene.rest) ELSE Fail
        cpg == IF gem.ok THEN DeOptString(gem.rest) ELSE Fail
        cor == IF cpg.ok THEN DeOptF64(cpg.rest) ELSE Fail
        pv == IF cor.ok THEN DeOptF64(cor.rest) ELSE Fail
        adj == IF pv.ok THEN DeOptF64(pv.rest) ELSE Fail
    IN IF ~adj.ok THEN Fail
       ELSE Read([gene |-> gene.v, gem |-> gem.v, cpg_site_id |-> cpg.v,
                  correlation |-> cor.v, p_value |-> pv.v, adjusted_p_value |-> adj.v],
                 adj.rest)

-----------------------------------------------------------------------------
(* Operations of CorResult *)

ArgCounts == 0..7

\* CorResult::new(args): args holds the first k of the six values of v (and
\* anything after them); get_item(i).unwrap() panics when i >= k
CorResultNew(k, v) ==
    IF k >= 2
    THEN IF k < 6 THEN [panic |-> TRUE, self |-> Placeholder]
         ELSE [panic |-> FALSE, self |-> v]
    ELSE [panic |-> FALSE, self |-> Placeholder]

\* the setter pyo3 generates for field f
SetField(self, f, val) == [self EXCEPT ![f] = val]

\* mutant: p_value is serialized where adjusted_p_value belongs
GetStateRepeatsPValue(self) ==
    [tuple |-> TRUE,
     items |-> <<SerString(self.gene), SerString(self.gem), SerOptString(self.cpg_site_id),
                 SerOptF64(self.correlation), SerOptF64(self.p_value),
                 SerOptF64(self.p_value)>>]

\* __getstate__: each field serialized on its own
GetState(self) ==
    [tuple |-> TRUE,
     items |-> <<SerString(self.gene), SerString(self.gem), SerOptString(self.cpg_site_id),
                 SerOptF64(self.correlation), SerOptF64(self.p_value),
                 SerOptF64(self.adjusted_p_value)>>]

NoPickle == [tuple |-> FALSE, items |-> <<>>]

\* mutant: adjusted_p_value is left out of the restored state
SetStateDropsAdjusted(self, state) ==
    IF ~state.tuple THEN [status |-> "err", self |-> self]
    ELSE LET item(i) == IF Len(state.items) >= i THEN state.items[i] ELSE <<>>
             g == DeString(item(1))
             m == DeString(item(2))
             c == DeOptString(item(3))
             r == DeOptF64(item(4))
             p == DeOptF64(item(5))
         IN IF g.ok /\ m.ok /\ c.ok /\ r.ok /\ p.ok
            THEN [status |-> "ok",
                  self |-> [self EXCEPT !.gene = g.v, !.gem = m.v, !.cpg_site_id = c.v,
                                        !.correlation = r.v, !.p_value = p.v,
                                        !.adjusted_p_value = None]]
            ELSE [status |-> "panic", self |-> self]

\* __setstate__: Err when state is no tuple; the fields are assigned in order
\* and a missing or unreadable item panics (unwrap) after the fields before it
\* have been assigned
SetState(self, state) ==
    IF ~state.tuple THEN [status |-> "err", self |-> self]
    ELSE LET item(i) == IF Len(state.items) >= i THEN state.items[i] ELSE <<>>
             g == DeString(item(1))
             s1 == IF g.ok THEN [self EXCEPT !.gene = g.v] ELSE self
             m == IF g.ok THEN DeString(item(2)) ELSE Fail
             s2 == IF m.ok THEN [s1 EXCEPT !.gem = m.v] ELSE s1
             c == IF m.ok THEN DeOptString(item(3)) ELSE Fail
             s3 == IF c.ok THEN [s2 EXCEPT !.cpg_site_id = c.v] ELSE s2
             r == IF c.ok THEN DeOptF64(item(4)) ELSE Fail
             s4 == IF r.ok THEN [s3 EXCEPT !.correlation = r.v] ELSE s3
             p == IF r.ok THEN DeOptF64(item(5)) ELSE Fail
             s5 == IF p.ok THEN [s4 EXCEPT !.p_value = p.v] ELSE s4
             a == IF p.ok THEN DeOptF64(item(6)) ELSE Fail
             s6 == IF a.ok THEN [s5 EXCEPT !.adjusted_p_value = a.v] ELSE s5
         IN [status |-> IF a.ok THEN "ok" ELSE "panic", self |-> s6]

\* mutant: the optional numeric fields are written without their presence tag
EncodeUntagged(self, w) ==
    w \o SerString(self.gene) \o SerString(self.gem) \o SerOptString(self.cpg_site_id)
      \o self.correlation.v \o self.p_value.v \o self.adjusted_p_value.v

\* Sortable::encode: the serialized value is appended to the writer
Encode(self, w) == w \o Serialize(self)

DecodedNone == [some |-> FALSE, v |-> Placeholder]

\* mutant: a read-ahead that drains the reader with the first value
DecodeDrains(bs) ==
    LET d == Deserialize(bs)
    IN IF d.ok THEN [result |-> Some(d.v), rest |-> <<>>]
       ELSE [result |-> DecodedNone, rest |-> <<>>]

\* Sortable::decode: deserialize_from(reader).ok(); a failed read leaves
\* nothing in the reader
Decode(bs) ==
    LET d == Deserialize(bs)
    IN IF d.ok THEN [result |-> Some(d.v), rest |-> d.rest]
       ELSE [result |-> DecodedNone, rest |-> <<>>]

-----------------------------------------------------------------------------
(* Actions on CorResult *)

NoNumerics == [correlation |-> None, p_value |-> None, adjusted_p_value |-> None]

\* lastOp: the operation, the field a setter wrote, whether it panicked, the
\* optional numeric values it was given, those the object held before it, and
\* the number of arguments the object was constructed with
NoOp == [op |-> "none", field |-> "none", panic |-> FALSE, supplied |-> NoNumerics,
         before |-> NoNumerics, ctor |-> 0]

Numerics(v) == [correlation |-> v.correlation, p_value |-> v.p_value,
                adjusted_p_value |-> v.adjusted_p_value]

Fields(v) == [gene |-> v.gene, gem |-> v.gem, cpg_site_id |-> v.cpg_site_id,
              correlation |-> v.correlation, p_value |-> v.p_value,
              adjusted_p_value |-> v.adjusted_p_value]

\* the states __setstate__ is called with: not a tuple, the state of a value
\* of S, or the first k < 6 items of the state of a value without absent field
States(S) ==
    {NoPickle} \cup {GetState(v) : v \in S} \cup
    {[tuple |-> TRUE, items |-> Take(GetState(v).items, k)] :
        v \in {w \in S : w.cpg_site_id.some /\ w.correlation.some}, k \in 0..5}

New(k, v) ==
    /\ ~res.live
    /\ LET made == CorResultNew(k, v)
       IN /\ res' = IF made.panic THEN res ELSE Live(made.self)
          /\ lastOp' = [op |-> "new", field |-> "none", panic |-> made.panic,
                        supplied |-> IF k >= 6 THEN Numerics(v) ELSE NoNumerics,
                        before |-> NoNumerics, ctor |-> k]
    /\ UNCHANGED <<other, pickled>>

SetString(f, t) ==
    /\ res.live
    /\ res' = SetField(res, f, t)
    /\ lastOp' = [NoOp EXCEPT !.op = "set", !.field = f, !.before = Numerics(res),
                              !.ctor = lastOp.ctor]
    /\ UNCHANGED <<other, pickled>>

SetNumeric(f, o) ==
    /\ res.live
    /\ res' = SetField(res, f, o)
    /\ lastOp' = [NoOp EXCEPT !.op = "set", !.field = f, !.supplied[f] = o,
                              !.before = Numerics(res), !.ctor = lastOp.ctor]
    /\ UNCHANGED <<other, pickled>>

\* res.__setstate__(state)
SetStateSelf(state) ==
    /\ res.live
    /\ LET done == SetState(res, state)
           item(i) == IF Len(state.items) >= i THEN DeOptF64(state.items[i]).v ELSE None
       IN /\ res' = done.self
          /\ lastOp' = [op |-> "setstate", field |-> "none", panic |-> done.status # "ok",
                        supplied |-> [correlation |-> item(4), p_value |-> item(5),
                                      adjusted_p_value |-> item(6)],
                        before |-> Numerics(res), ctor |-> lastOp.ctor]
    /\ UNCHANGED <<other, pickled>>

\* pickled = res.__getstate__()
GetStateSelf ==
    /\ res.live
    /\ ~pickled.tuple
    /\ pickled' = GetState(res)
    /\ UNCHANGED <<res, other, lastOp>>

\* other.__setstate__(pickled)
SetStateOther ==
    /\ other.live
    /\ pickled.tuple
    /\ lastOp.op = "none"
    /\ LET done == SetState(other, pickled)
       IN /\ other' = done.self
          /\ lastOp' = [NoOp EXCEPT !.op = "setstate", !.panic = done.status # "ok"]
    /\ UNCHANGED <<res, pickled>>

-----------------------------------------------------------------------------
(* Actions of the Sortable encoding *)

Closed == [open |-> FALSE, bytes |-> <<>>]

\* v.encode(&mut writer)
EncodeValue(v) ==
    /\ ~reader.open
    /\ Len(sent) < MaxStream
    /\ writer' = Encode(v, writer)
    /\ sent' = Append(sent, v)
    /\ UNCHANGED <<reader, received>>

\* res.encode(&mut writer) on an empty writer
EncodeSelf ==
    /\ res.live
    /\ ~reader.open
    /\ sent = <<>>
    /\ writer' = Encode(res, writer)
    /\ sent' = <<Fields(res)>>
    /\ UNCHANGED <<reader, received>>

\* a reader over the bytes written
OpenReader ==
    /\ ~reader.open
    /\ reader' = [open |-> TRUE, bytes |-> writer]
    /\ UNCHANGED <<writer, sent, received>>

\* CorResult::decode(&mut reader); called at most twice past the last value
DecodeNext ==
    /\ reader.open
    /\ Len(received) < Len(sent) + 2
    /\ LET d == Decode(reader.bytes)
       IN /\ received' = Append(received, d.result)
          /\ reader' = [reader EXCEPT !.bytes = d.rest]
    /\ UNCHANGED <<writer, sent>>

-----------------------------------------------------------------------------
(* Specifications *)

CorIdle == /\ overflow_checks = FALSE /\ strategy = NoStrategy
           /\ x = <<>> /\ y = <<>> /\ out = NoOut
ResIdle == res = NoResult /\ other = NoResult /\ pickled = NoPickle /\ lastOp = NoOp
CodecIdle == writer = <<>> /\ sent = <<>> /\ reader = Closed /\ received = <<>>

\* the strategies: a build profile, then get_correlation_method, then correlate
InitCor ==
    /\ overflow_checks \in BOOLEAN
    /\ strategy = NoStrategy /\ x = <<>> /\ y = <<>> /\ out = NoOut
    /\ ResIdle /\ CodecIdle

NextCor ==
    \/ \E m \in Methods, n \in SampleCounts :
          GetCorrelationMethod(m, n) /\ UNCHANGED <<resVars, codecVars>>
    \/ CallPearson /\ UNCHANGED <<resVars, codecVars>>
    \/ CallSpearman /\ UNCHANGED <<resVars, codecVars>>
    \/ CallKendall /\ UNCHANGED <<resVars, codecVars>>

SpecCor == InitCor /\ [][NextCor]_vars

\* one CorResult: construction, the setters and __setstate__
InitRes == CorIdle /\ ResIdle /\ CodecIdle

NextRes ==
    \/ \E k \in ArgCounts, v \in PlainResults :
          New(k, v) /\ UNCHANGED <<corVars, codecVars>>
    \/ \E f \in {"gene", "gem"}, t \in Strings :
          SetString(f, t) /\ UNCHANGED <<corVars, codecVars>>
    \/ \E o \in OptStrings :
          SetString("cpg_site_id", o) /\ UNCHANGED <<corVars, codecVars>>
    \/ \E f \in NumericFields, o \in PlainOptF64s :
          SetNumeric(f, o) /\ UNCHANGED <<corVars, codecVars>>
    \/ \E state \in States(Reduced(PlainResults)) :
          SetStateSelf(state) /\ UNCHANGED <<corVars, codecVars>>

SpecRes == InitRes /\ [][NextRes]_vars

\* a value r and a target s: s.__setstate__(r.__getstate__())
InitPickle ==
    /\ CorIdle /\ CodecIdle
    /\ res \in {Live(v) : v \in CorResults}
    /\ other \in {Live(v) : v \in Reduced(PlainResults)}
    /\ pickled = NoPickle /\ lastOp = NoOp

NextPickle ==
    \/ GetStateSelf /\ UNCHANGED <<corVars, codecVars>>
    \/ SetStateOther /\ UNCHANGED <<corVars, codecVars>>

SpecPickle == InitPickle /\ [][NextPickle]_vars

\* a value r encoded into an empty writer and decoded from its bytes
InitRoundTrip ==
    /\ CorIdle /\ CodecIdle
    /\ res \in {Live(v) : v \in CorResults}
    /\ other = NoResult /\ pickled = NoPickle /\ lastOp = NoOp

NextRoundTrip ==
    \/ EncodeSelf /\ UNCHANGED <<corVars, resVars>>
    \/ OpenReader /\ sent # <<>> /\ UNCHANGED <<corVars, resVars>>
    \/ DecodeNext /\ UNCHANGED <<corVars, resVars>>

SpecRoundTrip == InitRoundTrip /\ [][NextRoundTrip]_vars

\* a stream of values encoded into one writer, then decoded one by one
InitStream == CorIdle /\ ResIdle /\ CodecIdle

NextStream ==
    \/ \E v \in Reduced(CorResults) : EncodeValue(v) /\ UNCHANGED <<corVars, resVars>>
    \/ OpenReader /\ UNCHANGED <<corVars, resVars>>
    \/ DecodeNext /\ UNCHANGED <<corVars, resVars>>

SpecStream == InitStream /\ [][NextStream]_vars

-----------------------------------------------------------------------------
(* Properties *)

Called == out.status # "none"
Returned == out.status = "ok"

\* C1: decoding the bytes written by encode(r) returns Some(r') with r' equal
\* to r in all six fields (equality of the fields' bytes and bits).
EncodeDecodeRoundTrip ==
    (reader.open /\ Len(received) >= 1) => received[1] = Some(Fields(res))

\* a value with an absent field, a NaN and a non-empty string has been decoded
RoundTripWitness ==
    /\ reader.open /\ Len(received) >= 1
    /\ received[1].some
    /\ res.gene # <<>>
    /\ res.cpg_site_id = None
    /\ res.correlation = None
    /\ res.p_value = Some(F64NaN)
    /\ res.adjusted_p_value = Some(F64One)

\* C2: for Pearson and Spearman neither construction nor correlate yields a
\* (statistic, p-value) pair computed with zero, negative or wrapped degrees
\* of freedom: a sample count below 3 is reported as an error (stated for a
\* build with overflow checks, where n - 2 panics instead of wrapping).
SmallSampleIsError ==
    (overflow_checks /\ strategy.method \in {"Pearson", "Spearman"} /\ Returned)
        => (strategy.n >= 3 /\ strategy.df.k = "fin" /\ strategy.df.s > 0)

\* C3: for every method and vectors of the same length n >= 3, correlate
\* returns a statistic in [-1, 1] and a p-value in [0, 1].
StatisticAndPValueInRange ==
    (Called /\ strategy.n >= 3 /\ ~HasNaN(x) /\ ~HasNaN(y))
        => (Returned /\ InMinusOneOne(out.stat) /\ PInUnit(out.p))

\* C4: when the statistic is undefined for a pair (a vector without variance)
\* correlate signals an error: it returns no undefined statistic or p-value
\* as an ordinary result (stated for n >= 3).
UndefinedStatisticIsError ==
    (Returned /\ strategy.method \in {"Pearson", "Spearman"} /\ strategy.n >= 3
       /\ \E i \in DOMAIN x : \A j \in DOMAIN x : x[j] = x[i])
        => (out.stat.k # "nan" /\ out.p.k # "nan")

\* C5 as stated: the optional numeric fields are absent only in the
\* placeholder built with fewer than two constructor arguments, and a field
\* that has been present is never absent afterwards.
AbsentOnlyInPlaceholder ==
    res.live =>
        \A f \in NumericFields :
            /\ res[f] = None => lastOp.ctor < 2
            /\ lastOp.before[f].some => res[f].some

\* C5 amended: a CorResult built with fewer than two arguments has the three
\* optional numeric fields absent; built with six or more, each is as passed;
\* a field that was present is absent after an operation only when that
\* operation is the field's setter or __setstate__ and was given an absent value.
AbsentOnlyWhenGivenAbsent ==
    res.live =>
        \A f \in NumericFields :
            /\ (lastOp.op = "new" /\ lastOp.ctor < 2) => res[f] = None
            /\ (lastOp.op = "new" /\ lastOp.ctor >= 6) => res[f] = lastOp.supplied[f]
            /\ (lastOp.before[f].some /\ ~res[f].some) =>
                    /\ \/ lastOp.op = "setstate"
                       \/ lastOp.op = "set" /\ lastOp.field = f
                    /\ lastOp.supplied[f] = None

\* __setstate__ was given absent values for an object, built with six
\* arguments, that held a p_value and an adjusted_p_value
ResetWitness ==
    /\ res.live
    /\ lastOp.op = "setstate" /\ ~lastOp.panic
    /\ lastOp.ctor >= 6
    /\ lastOp.before.p_value.some /\ lastOp.before.adjusted_p_value.some
    /\ lastOp.before.correlation = None
    /\ res.p_value = None /\ res.adjusted_p_value = None /\ res.correlation = None

Values(xs) == {xs[i] : i \in DOMAIN xs}

\* the comparator is a total order on S
ComparatorIsTotalOrder(S) ==
    /\ \A a \in S : Comparator(a, a) = "Equal"
    /\ \A a, b \in S : Comparator(a, b) = "Greater" <=> Comparator(b, a) = "Less"
    /\ \A a, b, c \in S :
          (Comparator(a, b) = "Less" /\ Comparator(b, c) = "Less") => Comparator(a, c) = "Less"

\* C6: Kendall's correlate returns a pair without failing for equal-length
\* vectors, values that do not compare included, and its comparator is a
\* total order on the values (stated for vectors of at least two samples).
KendallComparatorTotal ==
    (strategy.method = "Kendall" /\ Called /\ strategy.n >= 2)
        => (Returned /\ ComparatorIsTotalOrder(Values(x) \cup Values(y)))

Negated(xs) == [i \in DOMAIN xs |-> FNeg(xs[i])]

\* C7: Pearson's correlate returns r unchanged and the p-value
\* 2*min(P(T<=t), P(T>=t)), t = r*sqrt(df)/sqrt(1-r^2), df = n-2: twice the
\* lower tail at -|t| (t^2 * (1 - r^2) = df * r^2, at infinity when r^2 = 1),
\* and the same p-value for -r.
PearsonPValueFormula ==
    (strategy.method = "Pearson" /\ Returned /\ strategy.n >= 3) =>
        LET r == Correlation(x, y, strategy.n)
            r2 == AsRoot(r)
            p == out.p
            mirrored == PearsonCorrelate(strategy, x, Negated(y))
        IN /\ out.stat = r
           /\ r.k = "nan" => p.k = "nan"
           /\ r.k = "fin" =>
                /\ p.k = "cdf" /\ p.dist = "t" /\ p.scale = 2
                /\ p.df = Rat(strategy.n - 2, 1)
                /\ IF r2.num = r2.den /\ r.s # 0
                   THEN p.q = Inf(-1)
                   ELSE /\ p.q.k = "fin"
                        /\ p.q.s = -AbsInt(r.s)
                        /\ AsRoot(p.q).num * (r2.den - r2.num)
                             = (strategy.n - 2) * r2.num * AsRoot(p.q).den
           /\ mirrored.stat = FNeg(r)
           /\ mirrored.p = p

\* Pearson returned a coefficient strictly between 0 and 1
PearsonWitness ==
    /\ strategy.method = "Pearson" /\ Returned /\ strategy.n >= 3
    /\ out.stat.k = "fin" /\ out.stat.s = 1
    /\ out.stat.num < out.stat.den
    /\ out.p.k = "cdf"

\* C8: Pearson on the gene vector [1..n] and the GEM vector [1..n], n the
\* scenario's sample count, returns the statistic 1 and the p-value 0.
PerfectCorrelationScenario ==
    (strategy.method = "Pearson" /\ Called /\ strategy.n = ScenarioN
       /\ x = Ramp(ScenarioN) /\ y = Ramp(ScenarioN))
        => (Returned /\ IsOne(out.stat) /\ out.p.k = "cdf" /\ out.p.scale = 2
            /\ PIsZero(out.p))

ScenarioWitness ==
    /\ strategy.method = "Pearson" /\ Returned /\ strategy.n = ScenarioN
    /\ x = Ramp(ScenarioN) /\ y = Ramp(ScenarioN)

\* C9: repeated decode calls on the bytes of a sequence of encoded values
\* return the values in order, one per call, and None after the last one.
StreamDecodesInOrder ==
    \A i \in 1..Len(received) :
        IF i <= Len(sent) THEN received[i] = Some(sent[i])
        ELSE received[i] = DecodedNone

\* two values of different encoded lengths were decoded, then None
StreamWitness ==
    /\ Len(sent) = MaxStream /\ Len(received) = MaxStream + 1
    /\ Len(Serialize(sent[1])) > Len(Serialize(sent[2]))
    /\ sent[2].correlation = None
    /\ received[MaxStream + 1] = DecodedNone

\* C10: s.__setstate__(r.__getstate__()) makes s equal to r in all six
\* fields, and __getstate__ leaves r as it was (the state it returned is
\* still the state of r).
SetStateRestoresGetState ==
    (lastOp.op = "setstate") =>
        /\ ~lastOp.panic
        /\ Fields(other) = Fields(res)
        /\ pickled = GetState(res)

\* a state with absent and present fields was restored
PickleWitness ==
    /\ lastOp.op = "setstate"
    /\ other.gene # <<>>
    /\ other.cpg_site_id = None
    /\ other.correlation = None
    /\ other.p_value = Some(F64NaN)
    /\ other.adjusted_p_value = Some(F64One)

====
